---- MODULE Spec2Model ----
(***************************************************************************)
(* FairDataInput (pyfair/model/model_input.py): keyword routing,           *)
(* validation, sampling and the record of supplied values.                 *)
(*                                                                         *)
(* Numbers.  Parameter values and samples are reals in the program.  Here  *)
(* a value v stands for the real v / Unit, so 1.0 is Unit and the interval *)
(* [0.0, 1.0] is 0..Unit.  A product of two samples (generate_multi)       *)
(* stands for the real divided by Unit * Unit.                             *)
(*                                                                         *)
(* Names.  Targets and store keys are Python strings; they are modelled as *)
(* sequences of one-character strings because generate_multi works on the  *)
(* characters of the name (str.lstrip).  Keyword names and column names    *)
(* are only compared for equality and stay TLA+ strings.                   *)
(*                                                                         *)
(* Keyword dictionaries are functions from keyword to value.  A dict's     *)
(* iteration order is the caller's choice, so wherever the code raises for *)
(* the first offending item in iteration order, the model allows the error *)
(* for any offending item.                                                 *)
(***************************************************************************)
EXTENDS Integers, Sequences, FiniteSets, TLC

VARIABLES
    supplied_values,   \* self._supplied_values
    before,            \* history: self._supplied_values when the last call began
    pc,                \* "idle" (free-running instance) or the position of a scripted request
    op,                \* the last (or pending) operation: "none", "generate", "generate_multi"
    target,            \* its target / prefixed_target
    count,             \* its count
    kwargs,            \* its **kwargs (generate)
    kwargs_dict,       \* its kwargs_dict (generate_multi)
    result             \* what the call returned or raised

vars == <<supplied_values, before, pc, op, target, count, kwargs, kwargs_dict, result>>

---------------------------------------------------------------------------
(* Bounds *)

Unit == 2        \* resolution of the value grid: 1.0 is Unit
MaxCount == 2    \* largest count requested

Vals == -1 .. (Unit + 1)        \* parameter values: -1/Unit .. (Unit+1)/Unit
SampleVals == -1 .. (Unit + 1)  \* what an unbounded sampler may return
Counts == 1 .. MaxCount

---------------------------------------------------------------------------
(* Names *)

Action == <<"A","c","t","i","o","n">>
Vulnerability == <<"V","u","l","n","e","r","a","b","i","l","i","t","y">>
ControlStrength == <<"C","o","n","t","r","o","l"," ","S","t","r","e","n","g","t","h">>
ThreatCapability == <<"T","h","r","e","a","t"," ","C","a","p","a","b","i","l","i","t","y">>
LossEventFrequency == <<"L","o","s","s"," ","E","v","e","n","t"," ","F","r","e","q","u","e","n","c","y">>

multi_ == <<"m","u","l","t","i","_">>

---------------------------------------------------------------------------
(* __init__ : the tables *)

_le_1_targets == {Action, Vulnerability, ControlStrength, ThreatCapability}

\* set by __init__ and read by no method
_le_1_keywords == {"constant", "high", "mode", "low", "mean", "p"}

_parameter_map ==
    [ constant |-> "_gen_constant",
      high     |-> "_gen_pert",
      mode     |-> "_gen_pert",
      low      |-> "_gen_pert",
      gamma    |-> "_gen_pert",
      mean     |-> "_gen_normal",
      stdev    |-> "_gen_normal",
      p        |-> "_gen_bernoulli" ]

_bernoulli_targets == {Vulnerability}

_required_keywords ==
    [ _gen_constant  |-> <<"constant">>,
      _gen_pert      |-> <<"low", "mode", "high">>,
      _gen_normal    |-> <<"mean", "stdev">>,
      _gen_bernoulli |-> <<"p">> ]

DefaultGamma == 4

---------------------------------------------------------------------------
(* Outcomes of a call: a returned sample sequence or a raised exception *)

Returned(samples) ==
    [ok |-> TRUE, type |-> "", kind |-> "", key |-> "", samples |-> samples]

Raised(type, kind, key) ==
    [ok |-> FALSE, type |-> type, kind |-> kind, key |-> key, samples |-> <<>>]

NoResult == [ok |-> FALSE, type |-> "", kind |-> "", key |-> "", samples |-> <<>>]

\* raise FairException(...) with the message of the given check
FairException(kind, key) == Raised("FairException", kind, key)

Min(S) == CHOOSE x \in S : \A y \in S : x <= y

---------------------------------------------------------------------------
(* Validation *)

\* _check_le_1: the exceptions it can raise (none: it returns)
_check_le_1(tgt, kw) ==
    { FairException("between zero and one", key) :
        key \in { k \in DOMAIN kw :
                    /\ tgt \in _le_1_targets
                    /\ k # "stdev"
                    /\ ~ (0 <= kw[k] /\ kw[k] <= Unit) } }

\* variant: the required keywords are looked up before the signs
_check_parameters_required_first(target_function, kw) ==
    LET negative == { k \in DOMAIN kw :
                        /\ k \in {"p", "mean", "constant", "low", "mode", "high"}
                        /\ kw[k] < 0 }
        required_keywords == _required_keywords[target_function]
        missing == { i \in 1 .. Len(required_keywords) :
                        required_keywords[i] \notin DOMAIN kw }
    IN  IF missing # {}
        THEN { FairException("missing", required_keywords[Min(missing)]) }
        ELSE IF negative # {}
        THEN { FairException("less than zero", k) : k \in negative }
        ELSE {}

\* _check_parameters: the exceptions it can raise (none: it returns)
_check_parameters(target_function, kw) ==
    LET negative == { k \in DOMAIN kw :
                        /\ k \in {"p", "mean", "constant", "low", "mode", "high"}
                        /\ kw[k] < 0 }
        required_keywords == _required_keywords[target_function]
        missing == { i \in 1 .. Len(required_keywords) :
                        required_keywords[i] \notin DOMAIN kw }
    IN  IF negative # {}
        THEN { FairException("less than zero", k) : k \in negative }
        ELSE IF missing # {}
        THEN { FairException("missing", required_keywords[Min(missing)]) }
        ELSE {}

\* variant: the functions are not compared
_determine_func_raises_unmixed(kw) ==
    LET unrecognized == { k \in DOMAIN kw : k \notin DOMAIN _parameter_map }
        functions == { _parameter_map[k] : k \in DOMAIN kw }
    IN  IF unrecognized # {}
        THEN { FairException("not a recognized keyword", k) : k \in unrecognized }
        ELSE IF functions = {}
        THEN { Raised("IndexError", "list index out of range", "") }
        ELSE {}

\* _determine_func: the exceptions it can raise (none: it returns a function)
_determine_func_raises(kw) ==
    LET unrecognized == { k \in DOMAIN kw : k \notin DOMAIN _parameter_map }
        functions == { _parameter_map[k] : k \in DOMAIN kw }
    IN  IF unrecognized # {}
        THEN { FairException("not a recognized keyword", k) : k \in unrecognized }
        ELSE IF Cardinality(functions) > 1
        THEN { FairException("mixes incompatible keywords", "") }
        ELSE IF functions = {}
        THEN { Raised("IndexError", "list index out of range", "") }   \* functions[0] of []
        ELSE {}

\* _determine_func: the function it returns when it does not raise
_determine_func(kw) ==
    CHOOSE f \in { _parameter_map[k] : k \in DOMAIN kw } : TRUE

\* _check_pert: the exceptions it can raise; both conditions are computed,
\* then reported in the order 'mode >= low', 'high >= mode'
_check_pert(kw) ==
    IF ~ (kw["mode"] >= kw["low"])
    THEN { FairException("fails PERT requirement", "mode >= low") }
    ELSE IF ~ (kw["high"] >= kw["mode"])
    THEN { FairException("fails PERT requirement", "high >= mode") }
    ELSE {}

---------------------------------------------------------------------------
(* Samplers: each yields the set of outcomes the call can have *)

\* scipy.stats.bernoulli(**kwargs).rvs(count): the frozen distribution takes
\* the shape p only (TypeError otherwise); rvs rejects p outside [0,1]
\* (ValueError) and draws from {0, 1}
_gen_bernoulli(cnt, kw) ==
    IF DOMAIN kw # {"p"}
    THEN { Raised("TypeError", "bernoulli arguments", "") }
    ELSE IF ~ (0 <= kw["p"] /\ kw["p"] <= Unit)
    THEN { Raised("ValueError", "Domain error in arguments", "") }
    ELSE { Returned(s) :
             s \in [1 .. cnt -> { v \in {0, Unit} : /\ (kw["p"] = 0 => v = 0)
                                                    /\ (kw["p"] = Unit => v = Unit) }] }

\* variant: np.full(kwargs['constant'], count)
_gen_constant_swapped(cnt, kw) ==
    { Returned([i \in 1 .. kw["constant"] |-> cnt]) }

\* np.full(count, kwargs['constant'])
_gen_constant(cnt, kw) ==
    { Returned([i \in 1 .. cnt |-> kw["constant"]]) }

\* scipy.stats.norm(loc, scale).rvs(count): rvs rejects scale < 0
\* (ValueError); scale = 0 yields loc; otherwise any reals
_gen_normal(cnt, kw) ==
    IF kw["stdev"] < 0
    THEN { Raised("ValueError", "Domain error in arguments", "") }
    ELSE IF kw["stdev"] = 0
    THEN { Returned([i \in 1 .. cnt |-> kw["mean"]]) }
    ELSE { Returned(s) : s \in [1 .. cnt -> SampleVals] }

\* FairBetaPert(**kwargs).random_variates(count): count samples in [low, high]
FairBetaPert(cnt, kw) ==
    { Returned(s) : s \in [1 .. cnt -> kw["low"] .. kw["high"]] }

_gen_pert(cnt, kw) ==
    IF _check_pert(kw) # {} THEN _check_pert(kw) ELSE FairBetaPert(cnt, kw)

\* func(count, **kwargs) for the function _determine_func returned
Call(func, cnt, kw) ==
    CASE func = "_gen_constant"  -> _gen_constant(cnt, kw)
      [] func = "_gen_pert"      -> _gen_pert(cnt, kw)
      [] func = "_gen_normal"    -> _gen_normal(cnt, kw)
      [] func = "_gen_bernoulli" -> _gen_bernoulli(cnt, kw)

\* variant: only the upper bound is applied
np_clip_upper(results, lo, hi) ==
    [i \in DOMAIN results |-> IF results[i] > hi THEN hi ELSE results[i]]

\* np.clip(results, lo, hi)
np_clip(results, lo, hi) ==
    [i \in DOMAIN results |->
        IF results[i] < lo THEN lo ELSE IF results[i] > hi THEN hi ELSE results[i]]

---------------------------------------------------------------------------
(* _generate_single: the set of outcomes of one request *)

_generate_single(tgt, cnt, kw) ==
    IF tgt \in _le_1_targets /\ _check_le_1(tgt, kw) # {}
    THEN _check_le_1(tgt, kw)
    ELSE
      LET results ==
            IF tgt \in _bernoulli_targets
            THEN _gen_bernoulli(cnt, kw)
            ELSE IF _determine_func_raises(kw) # {}
            THEN _determine_func_raises(kw)
            ELSE LET func == _determine_func(kw)
                 IN  IF _check_parameters(func, kw) # {}
                     THEN _check_parameters(func, kw)
                     ELSE Call(func, cnt, kw)
      IN  { IF r.ok /\ tgt \in _le_1_targets
            THEN Returned(np_clip(r.samples, 0, Unit))
            ELSE r : r \in results }

---------------------------------------------------------------------------
(* The store: self._supplied_values maps a key to what was supplied.  An   *)
(* entry made by generate is a keyword dictionary, one made by             *)
(* generate_multi is the nested dictionary; the tag tells them apart.      *)

Simple(kw) == [kind |-> "simple", params |-> kw, nested |-> <<>>]

Nested(kd) == [kind |-> "multi", params |-> <<>>, nested |-> kd]

\* store[key] = entry
Put(store, key, entry) ==
    [k \in DOMAIN store \cup {key} |-> IF k = key THEN entry ELSE store[k]]

\* variant: gamma is set whenever low is supplied
WithGamma_always(kw) ==
    IF "low" \in DOMAIN kw
    THEN [k \in DOMAIN kw \cup {"gamma"} |->
            IF k = "gamma" THEN DefaultGamma * Unit ELSE kw[k]]
    ELSE kw

\* kwargs after "if 'low' in dict_keys and 'gamma' not in dict_keys: kwargs['gamma'] = 4"
WithGamma(kw) ==
    IF "low" \in DOMAIN kw /\ "gamma" \notin DOMAIN kw
    THEN [k \in DOMAIN kw \cup {"gamma"} |->
            IF k = "gamma" THEN DefaultGamma * Unit ELSE kw[k]]
    ELSE kw

\* variant: the keywords are recorded before the request is generated
generate_records_first(store, tgt, cnt, kw) ==
    { [ values |-> Put(store, tgt, Simple(WithGamma(kw))),
        result |-> r ] :
      r \in _generate_single(tgt, cnt, kw) }

\* generate: the outcomes of the call, each with the store it leaves
generate(store, tgt, cnt, kw) ==
    { [ values |-> IF r.ok THEN Put(store, tgt, Simple(WithGamma(kw))) ELSE store,
        result |-> r ] :
      r \in _generate_single(tgt, cnt, kw) }

---------------------------------------------------------------------------
(* generate_multi *)

Range(s) == { s[i] : i \in DOMAIN s }

\* str.lstrip(chars): drop leading characters that are in chars
RECURSIVE lstrip(_, _)
lstrip(s, chars) ==
    IF s # <<>> /\ Head(s) \in chars THEN lstrip(Tail(s), chars) ELSE s

\* the (target, column) pairs the two loops visit
Cells(kd) == UNION { { <<t, c>> : c \in DOMAIN kd[t] } : t \in DOMAIN kd }

RECURSIVE Sum(_, _)
Sum(f, S) ==
    IF S = {} THEN 0
    ELSE LET x == CHOOSE x \in S : TRUE IN f[x] + Sum(f, S \ {x})

\* every way the loops can fill the data of the given cells when no call raises
RECURSIVE Filled(_, _, _)
Filled(kd, cnt, cells) ==
    IF cells = {} THEN { <<>> }
    ELSE LET x == CHOOSE x \in cells : TRUE
         IN  { [y \in cells |-> IF y = x THEN r.samples ELSE d[y]] :
                 d \in Filled(kd, cnt, cells \ {x}),
                 r \in { r \in _generate_single(x[1], cnt, kd[x[1]][x[2]]) : r.ok } }

\* variant: (df1 + df2).sum(axis=1)
summed_added(kd, cnt, data) ==
    LET t1 == CHOOSE t \in DOMAIN kd : TRUE
        t2 == CHOOSE t \in DOMAIN kd : t # t1
        both == DOMAIN kd[t1] \cap DOMAIN kd[t2]
    IN  IF DOMAIN kd[t1] \cup DOMAIN kd[t2] = {}
        THEN <<>>
        ELSE [i \in 1 .. cnt |->
                Sum([c \in both |-> data[<<t1, c>>][i] + data[<<t2, c>>][i]], both)]

\* (df1 * df2).sum(axis=1): pandas aligns the two frames on row and column
\* labels; a column that only one frame has is NaN in the product and sum
\* skips NaN; two frames without columns have no rows
summed(kd, cnt, data) ==
    LET t1 == CHOOSE t \in DOMAIN kd : TRUE
        t2 == CHOOSE t \in DOMAIN kd : t # t1
        both == DOMAIN kd[t1] \cap DOMAIN kd[t2]
    IN  IF DOMAIN kd[t1] \cup DOMAIN kd[t2] = {}
        THEN <<>>
        ELSE [i \in 1 .. cnt |->
                Sum([c \in both |-> data[<<t1, c>>][i] * data[<<t2, c>>][i]], both)]

\* generate_multi: the outcomes of the call, each with the store it leaves
generate_multi(store, prefixed_target, cnt, kd) ==
    LET final_target == lstrip(prefixed_target, Range(multi_))
        new_target == multi_ \o final_target
        raised == UNION { { r \in _generate_single(x[1], cnt, kd[x[1]][x[2]]) : ~ r.ok } :
                          x \in Cells(kd) }
    IN  { [values |-> store, result |-> r] : r \in raised }
        \cup
        { [ values |-> IF Cardinality(DOMAIN kd) = 2
                       THEN Put(store, new_target, Nested(kd)) ELSE store,
            result |-> IF Cardinality(DOMAIN kd) = 2
                       THEN Returned(summed(kd, cnt, data))
                       ELSE Raised("ValueError", "values to unpack", "") ] :
          data \in Filled(kd, cnt, Cells(kd)) }

---------------------------------------------------------------------------
(* Inputs *)

MaxKeys == 2     \* every keyword set of at most this size is tried

\* the four targets bounded by one, and one that is not
Targets == _le_1_targets \cup {LossEventFrequency}

\* the sub-targets of generate_multi and the targets of the free-running instance
SubTargets == {Action, Vulnerability, LossEventFrequency}

\* the recognized keywords and one that is not
Keywords == DOMAIN _parameter_map \cup {"median"}

KeySets ==
    { ks \in SUBSET Keywords : Cardinality(ks) <= MaxKeys }
    \cup { {"low", "mode", "high"}, {"low", "mode", "gamma"},
           {"low", "mode", "high", "gamma"} }

ParamSets == UNION { [ks -> Vals] : ks \in KeySets }

\* prefixed targets, with and without the prefix
PrefixedTargets ==
    { multi_ \o <<"S","L">>,
      multi_ \o <<"t","i","m","e">>,
      multi_ \o multi_ \o <<"S","L">>,
      <<"S","L">> }

\* kwargs_dict: up to three sub-targets, each with columns among "a", "b"
MultiParams ==
    { [constant |-> 1], [constant |-> Unit], [p |-> 1], [constant |-> -1] }

ColumnDicts == UNION { [cs -> MultiParams] : cs \in SUBSET {"a", "b"} }

NestedDicts == UNION { [ts -> ColumnDicts] : ts \in SUBSET SubTargets }

\* a few requests for the free-running instance: one per family, one per error
SeqParams ==
    { [constant |-> 1],
      [low |-> 0, mode |-> 1, high |-> 1],
      [low |-> 0, mode |-> 1, high |-> 1, gamma |-> 1],
      [p |-> Unit],
      [constant |-> -1],
      [constant |-> 1, mean |-> 1],
      [low |-> 0, mode |-> 1],
      [mean |-> 1, stdev |-> -1],
      [low |-> 1, mode |-> 0, high |-> 1] }

SeqPrefixedTargets == { multi_ \o <<"S","L">>, multi_ \o <<"t","i","m","e">> }

SeqNested ==
    { (LossEventFrequency :> [a |-> [low |-> 0, mode |-> 1, high |-> 1]]) @@
      (Action :> [a |-> [constant |-> 1]]),
      (LossEventFrequency :> [a |-> [constant |-> 1]]) @@
      (Action :> [a |-> [constant |-> Unit + 1]]),
      (LossEventFrequency :> [a |-> [constant |-> 1]]),
      (LossEventFrequency :> [a |-> [constant |-> 1]]) @@
      (Action :> [a |-> [constant |-> 1]]) @@
      (Vulnerability :> [a |-> [p |-> 1]]) }

---------------------------------------------------------------------------
(* A free-running instance: any sequence of generate and generate_multi *)

\* __init__
Init ==
    /\ supplied_values = <<>>
    /\ before = <<>>
    /\ pc = "idle"
    /\ op = "none"
    /\ target = <<>>
    /\ count = 0
    /\ kwargs = <<>>
    /\ kwargs_dict = <<>>
    /\ result = NoResult

Generate(tgt, cnt, kw) ==
    /\ pc = "idle"
    /\ \E out \in generate(supplied_values, tgt, cnt, kw) :
          /\ supplied_values' = out.values
          /\ result' = out.result
    /\ before' = supplied_values
    /\ op' = "generate"
    /\ target' = tgt
    /\ count' = cnt
    /\ kwargs' = kw
    /\ kwargs_dict' = <<>>
    /\ UNCHANGED pc

GenerateMulti(prefixed_target, cnt, kd) ==
    /\ pc = "idle"
    /\ \E out \in generate_multi(supplied_values, prefixed_target, cnt, kd) :
          /\ supplied_values' = out.values
          /\ result' = out.result
    /\ before' = supplied_values
    /\ op' = "generate_multi"
    /\ target' = prefixed_target
    /\ count' = cnt
    /\ kwargs' = <<>>
    /\ kwargs_dict' = kd
    /\ UNCHANGED pc

Next ==
    \/ \E tgt \in SubTargets, cnt \in Counts, kw \in SeqParams : Generate(tgt, cnt, kw)
    \/ \E pt \in SeqPrefixedTargets, cnt \in Counts, kd \in SeqNested :
          GenerateMulti(pt, cnt, kd)

Spec == Init /\ [][Next]_vars

---------------------------------------------------------------------------
(* One request on a new instance, then the recorded entry played back *)

InitCall ==
    /\ supplied_values = <<>>
    /\ before = <<>>
    /\ pc = "request"
    /\ result = NoResult
    /\ count \in Counts
    /\ \/ /\ op = "generate"
          /\ target \in Targets
          /\ kwargs \in ParamSets
          /\ kwargs_dict = <<>>
       \/ /\ op = "generate_multi"
          /\ target \in PrefixedTargets
          /\ kwargs = <<>>
          /\ kwargs_dict \in NestedDicts

CallGenerate ==
    /\ pc = "request"
    /\ op = "generate"
    /\ \E out \in generate(supplied_values, target, count, kwargs) :
          /\ supplied_values' = out.values
          /\ result' = out.result
    /\ before' = supplied_values
    /\ pc' = "done"
    /\ UNCHANGED <<op, target, count, kwargs, kwargs_dict>>

CallGenerateMulti ==
    /\ pc = "request"
    /\ op = "generate_multi"
    /\ \E out \in generate_multi(supplied_values, target, count, kwargs_dict) :
          /\ supplied_values' = out.values
          /\ result' = out.result
    /\ before' = supplied_values
    /\ pc' = "done"
    /\ UNCHANGED <<op, target, count, kwargs, kwargs_dict>>

\* generate(target, count, **get_supplied_values()[target]) after a generate that returned
Replay ==
    /\ pc = "done"
    /\ op = "generate"
    /\ result.ok
    /\ \E out \in generate(supplied_values, target, count, supplied_values[target].params) :
          /\ supplied_values' = out.values
          /\ result' = out.result
    /\ before' = supplied_values
    /\ kwargs' = supplied_values[target].params
    /\ pc' = "replayed"
    /\ UNCHANGED <<op, target, count, kwargs_dict>>

NextCall == CallGenerate \/ CallGenerateMulti \/ Replay

SpecCall == InitCall /\ [][NextCall]_vars

---------------------------------------------------------------------------
(* Properties *)

InRange(v) == 0 <= v /\ v <= Unit

Generated == op = "generate" /\ pc \in {"idle", "done"}

GeneratedMulti == op = "generate_multi" /\ pc \in {"idle", "done"}

\* C1: a generate on a target bounded by one that returns, returns only
\* samples in [0.0, 1.0]
C1_BoundedSamplesInRange ==
    (Generated /\ target \in _le_1_targets /\ result.ok) =>
        \A i \in DOMAIN result.samples : InRange(result.samples[i])

\* a normal request on a bounded target returned a full-length sequence
C1_Witness ==
    /\ Generated /\ target = ControlStrength /\ result.ok
    /\ DOMAIN kwargs = {"mean", "stdev"} /\ kwargs["stdev"] > 0
    /\ Len(result.samples) = MaxCount
    /\ result.samples[1] = Unit /\ result.samples[MaxCount] = 0

\* C2: a call that raises leaves the store as it was when the call began
C2_FailureKeepsStore ==
    (op # "none" /\ ~ result.ok) => supplied_values = before

\* generate_multi raised for one column after the other could be generated,
\* on an instance that already holds entries
C2_Witness ==
    /\ op = "generate_multi" /\ ~ result.ok
    /\ Cardinality(DOMAIN kwargs_dict) = 2
    /\ result.kind = "between zero and one"
    /\ Cardinality(DOMAIN before) >= 2

\* C3: after a generate that returns, the entry of the target is the supplied
\* keywords, with gamma = 4 added when low was supplied without gamma; the
\* earlier entry is gone and all other entries are as before; and every
\* entry made by generate that has low has gamma
C3_RecordedEntry ==
    /\ (Generated /\ result.ok) =>
          /\ DOMAIN supplied_values = DOMAIN before \cup {target}
          /\ \A k \in DOMAIN before : k # target => supplied_values[k] = before[k]
          /\ supplied_values[target].kind = "simple"
          /\ LET entry == supplied_values[target].params
             IN  /\ DOMAIN entry =
                       DOMAIN kwargs \cup
                       (IF "low" \in DOMAIN kwargs THEN {"gamma"} ELSE {})
                 /\ \A k \in DOMAIN kwargs : entry[k] = kwargs[k]
                 /\ ("low" \in DOMAIN kwargs /\ "gamma" \notin DOMAIN kwargs)
                       => entry["gamma"] = 4 * Unit
    /\ \A k \in DOMAIN supplied_values :
          (supplied_values[k].kind = "simple" /\ "low" \in DOMAIN supplied_values[k].params)
             => "gamma" \in DOMAIN supplied_values[k].params

\* a PERT request without gamma replaced an entry with other keywords, next
\* to entries of other keys
C3_Witness ==
    /\ Generated /\ result.ok
    /\ target \in DOMAIN before
    /\ DOMAIN before[target].params = {"constant"}
    /\ DOMAIN kwargs = {"low", "mode", "high"}
    /\ Cardinality(DOMAIN before) >= 3

---------------------------------------------------------------------------

\* the families the recognized keywords of a dictionary resolve to
Families(kw) == { _parameter_map[k] : k \in DOMAIN kw \cap DOMAIN _parameter_map }

Recognized(kw) == DOMAIN kw \subseteq DOMAIN _parameter_map

Mixed(kw) == Recognized(kw) /\ Cardinality(Families(kw)) > 1

\* some value other than stdev lies outside [0.0, 1.0]
OutOfRange(kw) == \E k \in DOMAIN kw : k # "stdev" /\ ~ InRange(kw[k])

\* C4 as claimed: keywords of more than one family make generate raise the
\* mixed-keyword error, whatever the target
C4_MixedAnyTarget ==
    (Generated /\ Mixed(kwargs)) =>
        (~ result.ok /\ result.type = "FairException"
                     /\ result.kind = "mixes incompatible keywords")

\* C4 amended: keywords of more than one family make generate raise the
\* out-of-range error when the target is bounded and a value other than stdev
\* is outside [0,1]; otherwise the sampler's TypeError when the target is
\* bernoulli-only; otherwise the mixed-keyword error
C4_MixedByTarget ==
    (Generated /\ Mixed(kwargs)) =>
        /\ ~ result.ok
        /\ IF target \in _le_1_targets /\ OutOfRange(kwargs)
           THEN result.type = "FairException" /\ result.kind = "between zero and one"
           ELSE IF target \in _bernoulli_targets
           THEN result.type = "TypeError"
           ELSE result.type = "FairException"
                /\ result.kind = "mixes incompatible keywords"

\* constant with mean raised the mixed-keyword error on a bounded target
C4_Witness ==
    /\ Generated /\ target = Action
    /\ DOMAIN kwargs = {"constant", "mean"}
    /\ result.kind = "mixes incompatible keywords"

\* count copies of c
Copies(cnt, c) == [i \in 1 .. cnt |-> c]

OnlyConstant == DOMAIN kwargs = {"constant"} /\ kwargs["constant"] >= 0

\* C5 as claimed: generate(target, n, constant=c) with c >= 0 returns n
\* copies of c, whatever the target
C5_ConstantAnyTarget ==
    (Generated /\ OnlyConstant) =>
        (result.ok /\ result.samples = Copies(count, kwargs["constant"]))

\* C5 amended: generate(target, n, constant=c) with c >= 0 returns n copies
\* of c when the target is not bernoulli-only and, if it is bounded, c <= 1;
\* a bounded target with c > 1 raises the out-of-range error and a
\* bernoulli-only target with c <= 1 the sampler's TypeError
C5_ConstantByTarget ==
    (Generated /\ OnlyConstant) =>
        IF target \in _le_1_targets /\ kwargs["constant"] > Unit
        THEN ~ result.ok /\ result.kind = "between zero and one"
        ELSE IF target \in _bernoulli_targets
        THEN ~ result.ok /\ result.type = "TypeError"
        ELSE result.ok /\ result.samples = Copies(count, kwargs["constant"])

\* a constant strictly inside (0,1) came back count times on a bounded target
C5_Witness ==
    /\ Generated /\ OnlyConstant /\ target = ThreatCapability
    /\ kwargs["constant"] = 1 /\ count = MaxCount
    /\ result.ok /\ Len(result.samples) = MaxCount

---------------------------------------------------------------------------
(* The order of the checks of one request *)

Violates(check, tgt, kw) ==
    CASE check = "range"    -> tgt \in _le_1_targets /\ OutOfRange(kw)
      [] check = "family"   -> ~ Recognized(kw) \/ Cardinality(Families(kw)) # 1
      [] check = "required" ->
            /\ Recognized(kw) /\ Cardinality(Families(kw)) = 1
            /\ \E f \in Families(kw) : ~ (Range(_required_keywords[f]) \subseteq DOMAIN kw)
      [] check = "negative" ->
            \E k \in DOMAIN kw \cap {"p", "mean", "constant", "low", "mode", "high"} : kw[k] < 0
      [] check = "pert"     ->
            /\ {"low", "mode", "high"} \subseteq DOMAIN kw /\ Families(kw) = {"_gen_pert"}
            /\ ~ (kw["low"] <= kw["mode"] /\ kw["mode"] <= kw["high"])

\* the first check of the order that the request violates, "none" if none
RECURSIVE FirstViolated(_, _, _)
FirstViolated(order, tgt, kw) ==
    IF order = <<>> THEN "none"
    ELSE IF Violates(Head(order), tgt, kw) THEN Head(order)
    ELSE FirstViolated(Tail(order), tgt, kw)

\* the check whose error the call raised, "none" if it raised none of them
RaisedBy(r) ==
    IF r.ok THEN "none"
    ELSE CASE r.kind = "between zero and one"        -> "range"
           [] r.kind = "not a recognized keyword"    -> "family"
           [] r.kind = "mixes incompatible keywords" -> "family"
           [] r.kind = "list index out of range"     -> "family"
           [] r.kind = "missing"                     -> "required"
           [] r.kind = "less than zero"              -> "negative"
           [] r.kind = "fails PERT requirement"      -> "pert"
           [] OTHER                                  -> "none"

LacksHighNegativeLow ==
    /\ DOMAIN kwargs \in { {"low", "mode"}, {"low", "mode", "gamma"} }
    /\ kwargs["low"] < 0

---------------------------------------------------------------------------
(* generate_multi *)

\* the name with one leading "multi_" removed, if it has one
StripPrefix(name) ==
    IF Len(name) >= Len(multi_) /\ SubSeq(name, 1, Len(multi_)) = multi_
    THEN SubSeq(name, Len(multi_) + 1, Len(name))
    ELSE name

\* C7 as claimed: a generate_multi that returns has written the nested
\* dictionary as given under "multi_" + the prefixed target without one
\* leading "multi_", and nothing else
C7_MultiKey ==
    (GeneratedMulti /\ result.ok) =>
        supplied_values = Put(before, multi_ \o StripPrefix(target), Nested(kwargs_dict))

\* C8 as claimed: generate_multi with other than two sub-targets raises the
\* invalid-combination error, a FairException like the validation errors
C8_InvalidCombination ==
    (GeneratedMulti /\ Cardinality(DOMAIN kwargs_dict) # 2) =>
        (~ result.ok /\ result.type = "FairException"
                     /\ result.kind = "invalid combination")

\* each sub-target has exactly one column, a constant 1.0
OneColumnOfOnes ==
    \A t \in DOMAIN kwargs_dict :
        /\ Cardinality(DOMAIN kwargs_dict[t]) = 1
        /\ \A c \in DOMAIN kwargs_dict[t] : kwargs_dict[t][c] = [constant |-> Unit]

\* every column of every sub-target is a constant in range, so that its
\* samples are the constant
AllConstant ==
    \A t \in DOMAIN kwargs_dict : \A c \in DOMAIN kwargs_dict[t] :
        /\ DOMAIN kwargs_dict[t][c] = {"constant"}
        /\ InRange(kwargs_dict[t][c]["constant"])

\* sum over the given columns of the product of the two sub-targets' constants
RECURSIVE SumOfProducts(_, _)
SumOfProducts(kd, cols) ==
    IF cols = {} THEN 0
    ELSE LET c == CHOOSE c \in cols : TRUE
             prod == [t \in DOMAIN kd |-> kd[t][c]["constant"]]
             t1 == CHOOSE t \in DOMAIN kd : TRUE
             t2 == CHOOSE t \in DOMAIN kd : t # t1
         IN  prod[t1] * prod[t2] + SumOfProducts(kd, cols \ {c})

SharedColumns(kd) == { c \in {"a", "b"} : \A t \in DOMAIN kd : c \in DOMAIN kd[t] }

AnyColumn(kd) == \E t \in DOMAIN kd : DOMAIN kd[t] # {}

\* C9 as claimed: generate_multi with two sub-targets returns count rows, and
\* n copies of 1.0 when each sub-target has one column of ones, whatever the
\* sub-targets and the column names
C9_MultiOnesAnyColumns ==
    (GeneratedMulti /\ Cardinality(DOMAIN kwargs_dict) = 2) =>
        /\ result.ok => Len(result.samples) = count
        /\ OneColumnOfOnes =>
              (result.ok /\ result.samples = Copies(count, Unit * Unit))

\* C9 amended: generate_multi with two sub-targets returns count rows when
\* some sub-target has a column (an empty sequence when none has), row i
\* being the sum over the columns that both sub-targets have of the product
\* of their samples i; when each sub-target has one column of ones, is not
\* bernoulli-only, and the two columns have the same name, it returns n copies
\* of 1.0, and n copies of 0.0 when the names differ
C9_MultiOnesSharedColumn ==
    (GeneratedMulti /\ Cardinality(DOMAIN kwargs_dict) = 2) =>
        /\ result.ok =>
              Len(result.samples) = (IF AnyColumn(kwargs_dict) THEN count ELSE 0)
        /\ (result.ok /\ AllConstant) =>
              \A i \in DOMAIN result.samples :
                  result.samples[i] = SumOfProducts(kwargs_dict, SharedColumns(kwargs_dict))
        /\ (OneColumnOfOnes /\ DOMAIN kwargs_dict \cap _bernoulli_targets = {}) =>
              /\ result.ok
              /\ result.samples =
                    Copies(count, IF SharedColumns(kwargs_dict) # {} THEN Unit * Unit ELSE 0)

\* two sub-targets with one shared column of ones each returned count rows
C9_Witness ==
    /\ GeneratedMulti /\ DOMAIN kwargs_dict = {Action, LossEventFrequency}
    /\ OneColumnOfOnes /\ SharedColumns(kwargs_dict) = {"b"}
    /\ count = MaxCount /\ result.ok /\ Len(result.samples) = MaxCount

\* C10 as claimed: playing back the entry recorded by a generate that
\* returned raises no validation error and leaves the entry as it was
C10_ReplayAccepted ==
    pc = "replayed" =>
        /\ result.type # "FairException"
        /\ supplied_values[target] = before[target]

====
